---- MODULE Spec2Model ----
(***************************************************************************)
(* Conway's Game of Life on a torus with an SDL front end (src/main.rs).   *)
(* The Universe struct is the record `universe`; its methods are operators *)
(* from records to records; Engine::run is the interaction loop.           *)
(***************************************************************************)
EXTENDS Integers, Sequences, FiniteSets

VARIABLES
    universe,   \* Engine.universe : Universe
    mouse_dragging,         \* locals of Engine::run
    mouse_setting,
    mouse_clearing,
    previous_mouse_pos_x,
    previous_mouse_pos_y,
    tick_timer,     \* ms elapsed since the Instant in tick_timer, up to TickMs
    render_timer,   \* ms elapsed since the Instant in render_timer, up to RenderMs
    pc,             \* where Engine::run is: "events" (in the for loop over
                    \* poll_iter), "tick", "render" (at the timer checks), "top"
                    \* (back at the top of the loop), "done" (after break 'running)
    ticked,         \* history: this iteration of the loop called tick at its tick check
    rendered,       \* history: this iteration of the loop rendered and presented
    since_tick,     \* history: ms since the loop last called tick at a tick check
                    \* (or was entered), up to TickMs
    press,          \* history: the cursor and the offsets at the last button-down
                    \* event, and the offsets at the last one of the middle button
    start,      \* history: the universe a generation count started from
    gen,        \* history: calls of tick made on `start` with running = true
    calls       \* history: the methods called on `start`, where a claim needs them

mouse_mode == <<mouse_dragging, mouse_setting, mouse_clearing>>
previous_mouse_pos == <<previous_mouse_pos_x, previous_mouse_pos_y>>
clocks == <<tick_timer, render_timer, since_tick>>

locals == <<mouse_mode, previous_mouse_pos, clocks, pc, ticked, rendered, press>>

vars == <<universe, locals, start, gen, calls>>

\* the locals of Engine::run as the loop is entered (lines 241-249); the
\* specifications of Universe alone leave them there
InitLocals ==
    /\ mouse_dragging = FALSE
    /\ mouse_setting = FALSE
    /\ mouse_clearing = FALSE
    /\ previous_mouse_pos_x = 0
    /\ previous_mouse_pos_y = 0
    /\ tick_timer = 0
    /\ render_timer = 0
    /\ pc = "events"
    /\ ticked = FALSE
    /\ rendered = FALSE
    /\ since_tick = 0
    /\ press = [x |-> 0, y |-> 0, x_offset |-> 0, y_offset |-> 0,
                middle_x_offset |-> 0, middle_y_offset |-> 0]

(***************************************************************************)
(* Bounds of the model.                                                    *)
(***************************************************************************)
MaxDim == 3         \* grids of 1..MaxDim rows and columns, any cell content
MaxPatDim == 5      \* patterns are placed on grids of 4..MaxPatDim rows and columns
MaxGen == 3         \* generations a placed pattern is followed for
UniDim == 2         \* grids of 1..UniDim rows and columns under all the methods
MaxPan == 1         \* |x_offset| + |y_offset| <= MaxPan under all the methods
MaxNotch == 1       \* scale within MaxNotch tenths of 1.0 under all the methods
MaxCalls == 2       \* calls of toggle_state, pause and run that are recorded
ViewDown == 12      \* scale down to ViewDown tenths below 1.0 when zooming
ViewUp == 32        \* scale up to ViewUp tenths above 1.0 when zooming
LoopDim == 2        \* rows and columns of the grid of the loop (64 x 115 in Engine::new)
LoopPan == 13       \* |x_offset|, |y_offset| <= LoopPan in the loop
Delay == 50         \* ms that pass in one step of the clock

(***************************************************************************)
(* enum Cell { Dead = 0, Alive = 1 }                                       *)
(***************************************************************************)
Dead == 0
Alive == 1
Cell == {Dead, Alive}

(***************************************************************************)
(* Universe::new(height, width)                                            *)
(***************************************************************************)
(***************************************************************************)
(* f32.  `scale` is an f32 that starts at 1.0 and changes by additions of  *)
(* the literals 0.1 and -0.1, each rounded to 24 significant bits, so it   *)
(* is not a multiple of a tenth.  Every value it takes is a multiple of    *)
(* 2^-27 (the unit in the last place of 0.1f32), so an f32 is modelled by  *)
(* the integer that counts these units, and rounding is done on it.        *)
(***************************************************************************)
F32One == 2^27
Tenth == 13421773   \* 0.1f32 = 13421773 * 2^-27

Abs(n) == IF n < 0 THEN -n ELSE n
Sign(n) == IF n < 0 THEN -1 ELSE 1

\* the least e with a < 2^(24 + e): the bits of a that do not fit a significand
RECURSIVE ExcessBits(_)
ExcessBits(a) == IF a < 2^24 THEN 0 ELSE 1 + ExcessBits(a \div 2)

\* round to nearest, ties to even, to 24 significant bits
Round24(m) ==
    LET a    == Abs(m)
        e    == ExcessBits(a)
        q    == a \div 2^e
        r    == a % 2^e
        up   == e > 0 /\ (2 * r > 2^e \/ (2 * r = 2^e /\ q % 2 = 1))
    IN  Sign(m) * (IF up THEN q + 1 ELSE q) * 2^e

F32Add(a, b) == Round24(a + b)

\* k = OddPart(k) * TwoPart(k), TwoPart(k) a power of two
RECURSIVE TwoPart(_)
TwoPart(k) == IF k % 2 = 0 /\ k # 0 THEN 2 * TwoPart(k \div 2) ELSE 1
OddPart(k) == k \div TwoPart(k)

\* |k as f32 * s|: the significand of s times the odd part of k, rounded to
\* 24 bits (rounding commutes with the factors that are powers of two), as
\* a record: the value is sig * 2^exp * TwoPart(k) * 2^-27
F32MulAbs(k, s) ==
    LET e == ExcessBits(Abs(s))
    IN  [sig |-> Round24(OddPart(k) * (Abs(s) \div 2^e)), exp |-> e]

\* the integer part of |k as f32 * s|
F32MulWhole(k, s) ==
    LET p == F32MulAbs(k, s)
        d == F32One \div TwoPart(k)
    IN  IF 2^p.exp <= d THEN p.sig \div (d \div 2^p.exp)
        ELSE p.sig * (2^p.exp \div d)

\* (k as f32 * s) as i32: the cast truncates toward zero
F32MulAsI32(k, s) == Sign(s) * F32MulWhole(k, s)

\* (k as f32 * s).floor() as u32: the cast of a negative value gives 0
F32MulFloorAsU32(k, s) == IF s < 0 THEN 0 ELSE F32MulWhole(k, s)

new(height, width) ==
    [ height   |-> height,
      width    |-> width,
      cells    |-> [i \in 1..(width * height) |-> Dead],
      running  |-> FALSE,
      x_offset |-> 0,
      y_offset |-> 0,
      scale    |-> F32One,
      leg_size |-> 10,
      spacing  |-> 1 ]

\* (row * self.width + col) as usize
get_index(u, row, col) == row * u.width + col

\* self.cells[index]: Vec indices start at 0, sequence indices at 1
CellAt(cells, index) == cells[index + 1]

(***************************************************************************)
(* Universe::get_live_neighbors: the two nested loops over the modifiers   *)
(* [height - 1, 0, 1] and [width - 1, 0, 1], in the order of the loops;    *)
(* k = 3 * (position of row_modifier) + (position of col_modifier).        *)
(***************************************************************************)
\* the modifiers if the step to the previous row did not wrap to height - 1
RowModifiersNoWrap(u) == <<u.height, 0, 1>>

RowModifiers(u) == <<u.height - 1, 0, 1>>
ColModifiers(u) == <<u.width - 1, 0, 1>>

RECURSIVE LiveCountFrom(_, _, _, _)
LiveCountFrom(u, row, col, k) ==
    IF k >= 9 THEN 0
    ELSE LET row_modifier == RowModifiers(u)[(k \div 3) + 1]
             col_modifier == ColModifiers(u)[(k % 3) + 1]
             neighbor_row == (row + row_modifier) % u.height
             neighbor_col == (col + col_modifier) % u.width
             index        == get_index(u, neighbor_row, neighbor_col)
         IN  IF row_modifier = 0 /\ col_modifier = 0
             THEN LiveCountFrom(u, row, col, k + 1)
             ELSE CellAt(u.cells, index) + LiveCountFrom(u, row, col, k + 1)

get_live_neighbors(u, row, col) == LiveCountFrom(u, row, col, 0)

(***************************************************************************)
(* Universe::tick.  The match of lines 96-107, arm by arm.                 *)
(***************************************************************************)
\* the match without its overpopulation arm
NextCellNoOverpopulation(live_neighbors, cell) ==
    IF cell = Alive /\ live_neighbors < 2 THEN Dead
    ELSE IF cell = Alive /\ live_neighbors \in {2, 3} THEN Alive
    ELSE IF cell = Dead /\ live_neighbors = 3 THEN Alive
    ELSE cell

\* the match with the overpopulation guard off by one (x >= 3)
NextCellOffByOne(live_neighbors, cell) ==
    IF cell = Alive /\ live_neighbors < 2 THEN Dead
    ELSE IF cell = Alive /\ live_neighbors >= 3 THEN Dead
    ELSE IF cell = Alive /\ live_neighbors \in {2, 3} THEN Alive
    ELSE IF cell = Dead /\ live_neighbors = 3 THEN Alive
    ELSE cell

\* the match without its birth arm
NextCellNoBirth(live_neighbors, cell) ==
    IF cell = Alive /\ live_neighbors < 2 THEN Dead
    ELSE IF cell = Alive /\ live_neighbors > 3 THEN Dead
    ELSE IF cell = Alive /\ live_neighbors \in {2, 3} THEN Alive
    ELSE cell

NextCell(live_neighbors, cell) ==
    IF cell = Alive /\ live_neighbors < 2 THEN Dead
    ELSE IF cell = Alive /\ live_neighbors > 3 THEN Dead
    ELSE IF cell = Alive /\ live_neighbors \in {2, 3} THEN Alive
    ELSE IF cell = Dead /\ live_neighbors = 3 THEN Alive
    ELSE cell

\* the loop body if it read the buffer being written instead of self.cells
TickCellInPlace(u, next, row, col) ==
    LET v == [u EXCEPT !.cells = next]
    IN  NextCell(get_live_neighbors(v, row, col),
                 CellAt(v.cells, get_index(v, row, col)))

\* the loop body: the value stored in next[index]; it reads self.cells
TickCell(u, next, row, col) ==
    NextCell(get_live_neighbors(u, row, col),
             CellAt(u.cells, get_index(u, row, col)))

\* for row in 0..height { for col in 0..width { next[index] = ... } }
RECURSIVE TickLoop(_, _, _)
TickLoop(u, next, k) ==
    IF k >= u.height * u.width THEN next
    ELSE LET row   == k \div u.width
             col   == k % u.width
             index == get_index(u, row, col)
         IN  TickLoop(u,
                      [next EXCEPT ![index + 1] = TickCell(u, next, row, col)],
                      k + 1)

\* tick without its `false => return` arm
TickAlways(u) == [u EXCEPT !.cells = TickLoop(u, u.cells, 0)]

tick(u) ==
    IF ~u.running THEN u
    ELSE [u EXCEPT !.cells = TickLoop(u, u.cells, 0)]

(***************************************************************************)
(* toggle_state, pause, run, shift, reset                                  *)
(***************************************************************************)
\* toggle_state if it were `self.running |= true`
ToggleStateOr(u) == [u EXCEPT !.running = u.running \/ TRUE]

\* self.running ^= true
toggle_state(u) == [u EXCEPT !.running = (u.running /\ ~TRUE) \/ (~u.running /\ TRUE)]

pause(u) == [u EXCEPT !.running = FALSE]

run(u) == [u EXCEPT !.running = TRUE]

shift(u, x, y) == [u EXCEPT !.x_offset = u.x_offset + x,
                            !.y_offset = u.y_offset + y]

\* reset if it sized the new vector by width * width
ResetSquare(u) == [u EXCEPT !.cells = [i \in 1..(u.width * u.width) |-> Dead]]

\* reset if it also paused the simulation
ResetAndPause(u) ==
    [u EXCEPT !.cells = [i \in 1..(u.width * u.height) |-> Dead], !.running = FALSE]

reset(u) == [u EXCEPT !.cells = [i \in 1..(u.width * u.height) |-> Dead]]

increment_scale(u, increment) == [u EXCEPT !.scale = F32Add(u.scale, increment)]

(***************************************************************************)
(* Universe::get_by_coordinates.  The quotient (pixel - offset) / size is  *)
(* an f32: with size 0 it is NaN or an infinity.  For |pixel - offset| <   *)
(* 2^24 the operands are exact and the floor of the rounded quotient is    *)
(* the floor of the exact one.                                             *)
(***************************************************************************)
None == -1

\* ((leg_size + spacing * 2) as f32 * scale) as i32
CellSize(u) == F32MulAsI32(u.leg_size + u.spacing * 2, u.scale)

\* the quotient if it were rounded (.round()) instead of floored
RoundQuotient(d, size) ==
    IF size = 0
    THEN [kind |-> IF d = 0 THEN "nan" ELSE IF d > 0 THEN "inf" ELSE "-inf", val |-> 0]
    ELSE [kind |-> "finite",
          val  |-> IF size > 0 THEN (2 * d + size) \div (2 * size)
                   ELSE (-2 * d - size) \div (-2 * size)]

FloorQuotient(d, size) ==
    IF size = 0
    THEN [kind |-> IF d = 0 THEN "nan" ELSE IF d > 0 THEN "inf" ELSE "-inf", val |-> 0]
    ELSE [kind |-> "finite",
          val  |-> IF size > 0 THEN d \div size ELSE (-d) \div (-size)]

\* index < 0.0
BelowZero(q) == q.kind = "-inf" \/ (q.kind = "finite" /\ q.val < 0)
\* the comparison if it were `index > n as f32`
AtLeastStrict(q, n) == q.kind = "inf" \/ (q.kind = "finite" /\ q.val > n)

\* index >= n as f32
AtLeast(q, n) == q.kind = "inf" \/ (q.kind = "finite" /\ q.val >= n)
\* index as u32: NaN gives 0
AsU32(q) == IF q.kind = "finite" /\ q.val > 0 THEN q.val ELSE 0

get_by_coordinates(u, x, y) ==
    LET x_size  == CellSize(u)
        y_size  == CellSize(u)
        y_index == FloorQuotient(y - u.y_offset, y_size)
        x_index == FloorQuotient(x - u.x_offset, x_size)
    IN  IF \/ BelowZero(y_index) \/ BelowZero(x_index)
           \/ AtLeast(y_index, u.height) \/ AtLeast(x_index, u.width)
        THEN None
        ELSE AsU32(y_index) * u.width + AsU32(x_index)

\* kill if it flipped the cell instead of storing Cell::Dead
KillToggles(u, x, y) ==
    LET cell_index == get_by_coordinates(u, x, y)
    IN  IF cell_index = None THEN u
        ELSE [u EXCEPT !.cells[cell_index + 1] = 1 - @]

kill(u, x, y) ==
    LET cell_index == get_by_coordinates(u, x, y)
    IN  IF cell_index = None THEN u
        ELSE [u EXCEPT !.cells[cell_index + 1] = Dead]

revive(u, x, y) ==
    LET cell_index == get_by_coordinates(u, x, y)
    IN  IF cell_index = None THEN u
        ELSE [u EXCEPT !.cells[cell_index + 1] = Alive]

(***************************************************************************)
(* Universe::render: the fill_rect calls in the order they are made, each  *)
(* with the arguments of Rect::new and the draw color set before it.       *)
(***************************************************************************)
RECURSIVE RenderFrom(_, _, _, _)
RenderFrom(u, k, current_x, current_y) ==
    IF k >= Len(u.cells) THEN <<>>
    ELSE LET cell     == CellAt(u.cells, k)
             leg_size == F32MulFloorAsU32(u.leg_size, u.scale)
             rect     == [x |-> current_x, y |-> current_y,
                          w |-> leg_size, h |-> leg_size,
                          color |-> IF cell = Alive THEN "white" ELSE "black"]
             last_col == (k % u.width) = u.width - 1
         IN  <<rect>> \o
             RenderFrom(u, k + 1,
                        IF last_col THEN 0 + u.x_offset ELSE current_x + CellSize(u),
                        IF last_col THEN current_y + CellSize(u) ELSE current_y)

render(u) == RenderFrom(u, 0, 0 + u.x_offset, 0 + u.y_offset)

(***************************************************************************)
(* SpecRule: tick as a function of an arbitrary grid.  Every content of a  *)
(* grid is reachable by revive, and either value of running by             *)
(* toggle_state.                                                           *)
(***************************************************************************)
InitRule ==
    /\ \E height \in 1..MaxDim, width \in 1..MaxDim :
          \E c \in [1..(width * height) -> Cell], r \in BOOLEAN :
              universe = [new(height, width) EXCEPT !.cells = c, !.running = r]
    /\ start = universe
    /\ gen = 0
    /\ calls = <<>>
    /\ InitLocals

\* one call of tick on the drawn grid
Tick ==
    /\ gen < 1
    /\ universe' = tick(universe)
    /\ gen' = IF universe.running THEN gen + 1 ELSE gen
    /\ UNCHANGED <<locals, start, calls>>

NextRule == Tick

SpecRule == InitRule /\ [][NextRule]_vars

Rows(u) == 0..(u.height - 1)
Cols(u) == 0..(u.width - 1)
CellOf(u, row, col) == CellAt(u.cells, row * u.width + col)
AllCells(u, c) == \A i \in 1..Len(u.cells) : u.cells[i] = c

(***************************************************************************)
(* C1: with running true, one call of tick gives every cell the value the  *)
(* B3/S23 rule assigns to its state and its live-neighbor count in the     *)
(* grid as it was before the call.                                         *)
(***************************************************************************)
RuleOfClaim(cell, n) ==
    IF cell = Alive /\ (n < 2 \/ n > 3) THEN Dead
    ELSE IF cell = Alive /\ n \in {2, 3} THEN Alive
    ELSE IF cell = Dead /\ n = 3 THEN Alive
    ELSE cell

C1_TickFromSnapshot ==
    gen = 1 =>
        /\ Len(universe.cells) = Len(start.cells)
        /\ \A row \in Rows(start) : \A col \in Cols(start) :
              CellOf(universe, row, col)
                = RuleOfClaim(CellOf(start, row, col),
                              get_live_neighbors(start, row, col))

\* a 3x3 grid after a generation in which a cell was born and a cell survived
C1_Witness ==
    /\ gen = 1
    /\ start.height = 3 /\ start.width = 3
    /\ \E i, j \in 1..9 :
          /\ start.cells[i] = Dead /\ universe.cells[i] = Alive
          /\ start.cells[j] = Alive /\ universe.cells[j] = Alive

(***************************************************************************)
(* C3: get_live_neighbors counts the offsets (dr, dc) of                   *)
(* {-1,0,1} x {-1,0,1} other than (0,0) whose wrapped target is Alive, on  *)
(* every grid, width or height 1 or 2 included.                            *)
(***************************************************************************)
Offsets == ({-1, 0, 1} \X {-1, 0, 1}) \ {<<0, 0>>}

WrappedCount(u, row, col) ==
    Cardinality({ d \in Offsets :
        CellOf(u, (row + d[1]) % u.height, (col + d[2]) % u.width) = Alive })

C3_EightOffsets ==
    \A row \in Rows(universe) : \A col \in Cols(universe) :
        get_live_neighbors(universe, row, col) = WrappedCount(universe, row, col)

(***************************************************************************)
(* C4: cell (0,0) counts cell (height-1, width-1) as a neighbor; when that *)
(* is the only Alive cell of a grid of at least 3x3, the count is 1.       *)
(***************************************************************************)
C4_CornerWraps ==
    LET u == universe
    IN  CellOf(u, u.height - 1, u.width - 1) = Alive =>
          /\ get_live_neighbors(u, 0, 0) >= 1
          /\ ( /\ u.height >= 3 /\ u.width >= 3
               /\ \A i \in 1..Len(u.cells) :
                     u.cells[i] = Alive => i = u.height * u.width )
             => get_live_neighbors(u, 0, 0) = 1

C4_Witness ==
    /\ universe.height = 3 /\ universe.width = 3
    /\ universe.cells = <<Dead, Dead, Dead, Dead, Dead, Dead, Dead, Dead, Alive>>
    /\ get_live_neighbors(universe, 0, 0) = 1

(***************************************************************************)
(* C8: on a 3x3 grid of 9 Alive cells every cell has neighbor count 8, and *)
(* one tick with running true yields an all-Dead grid.                     *)
(***************************************************************************)
C8_FullTorusDies ==
    ( /\ start.height = 3 /\ start.width = 3 /\ AllCells(start, Alive) ) =>
        /\ \A row \in Rows(start) : \A col \in Cols(start) :
              get_live_neighbors(start, row, col) = 8
        /\ gen = 1 => AllCells(universe, Dead)

C8_Witness ==
    /\ start.height = 3 /\ start.width = 3 /\ AllCells(start, Alive)
    /\ gen = 1
    /\ Len(universe.cells) = 9 /\ AllCells(universe, Dead)

(***************************************************************************)
(* SpecPattern: a block or a blinker placed anywhere on a torus of         *)
(* 4..MaxPatDim rows and columns (by revive), then run.                    *)
(***************************************************************************)
\* the cells of a grid whose Alive cells are those at the positions in `alive`
Placed(height, width, alive) ==
    [i \in 1..(width * height) |->
        IF <<(i - 1) \div width, (i - 1) % width>> \in alive THEN Alive ELSE Dead]

Block(height, width, r, c) ==
    { <<r, c>>, <<r, (c + 1) % width>>,
      <<(r + 1) % height, c>>, <<(r + 1) % height, (c + 1) % width>> }

HorizontalBlinker(height, width, r, c) ==
    { <<r, c>>, <<r, (c + 1) % width>>, <<r, (c + 2) % width>> }

VerticalBlinker(height, width, r, c) ==
    { <<r, c>>, <<(r + 1) % height, c>>, <<(r + 2) % height, c>> }

Patterns(height, width) ==
    UNION { { Block(height, width, r, c),
              HorizontalBlinker(height, width, r, c),
              VerticalBlinker(height, width, r, c) } :
            <<r, c>> \in (0..(height - 1)) \X (0..(width - 1)) }

InitPattern ==
    /\ \E height \in 4..MaxPatDim, width \in 4..MaxPatDim :
          \E alive \in Patterns(height, width) :
              universe = [new(height, width) EXCEPT
                              !.cells = Placed(height, width, alive),
                              !.running = TRUE]
    /\ start = universe
    /\ gen = 0
    /\ calls = <<>>
    /\ InitLocals

\* one generation of the running grid
Generation ==
    /\ gen < MaxGen
    /\ universe.running
    /\ universe' = tick(universe)
    /\ gen' = gen + 1
    /\ UNCHANGED <<locals, start, calls>>

NextPattern == Generation

SpecPattern == InitPattern /\ [][NextPattern]_vars

IsBlock(u) ==
    \E r \in Rows(u), c \in Cols(u) :
        u.cells = Placed(u.height, u.width, Block(u.height, u.width, r, c))

IsBlinker(u) ==
    \E r \in Rows(u), c \in Cols(u) :
        \/ u.cells = Placed(u.height, u.width, HorizontalBlinker(u.height, u.width, r, c))
        \/ u.cells = Placed(u.height, u.width, VerticalBlinker(u.height, u.width, r, c))

(***************************************************************************)
(* C6: a 2x2 block alone on a grid of at least 4x4, wherever it lies, is   *)
(* left unchanged by every generation.                                     *)
(***************************************************************************)
C6_BlockIsStill ==
    (start.height >= 4 /\ start.width >= 4 /\ IsBlock(start))
        => universe.cells = start.cells

\* a block straddling both wrapped edges, after the generations followed
C6_Witness ==
    /\ start.cells = Placed(start.height, start.width,
                            Block(start.height, start.width,
                                  start.height - 1, start.width - 1))
    /\ gen >= 2
    /\ universe.cells = start.cells

(***************************************************************************)
(* C7: a blinker alone on a grid of at least 5x5 is back in its original   *)
(* configuration after exactly 2 generations, and differs from it after 1. *)
(***************************************************************************)
C7_BlinkerPeriodTwo ==
    (start.height >= 5 /\ start.width >= 5 /\ IsBlinker(start))
        => /\ gen = 1 => universe.cells # start.cells
           /\ gen = 2 => universe.cells = start.cells

\* a blinker that wraps around the right edge, two generations later
C7_Witness ==
    /\ start.height >= 5 /\ start.width >= 5
    /\ start.cells = Placed(start.height, start.width,
                            HorizontalBlinker(start.height, start.width,
                                              0, start.width - 1))
    /\ gen = 2
    /\ universe.cells = start.cells

(***************************************************************************)
(* SpecUniverse: a Universe under any sequence of calls of its public      *)
(* methods.  `start` is the universe as Universe::new returned it.         *)
(***************************************************************************)
\* pixels of the clicks: one in each cell at the scales reached, one outside
ClickPixels == { 13 * k : k \in -1..UniDim }

InScaleRange(s, notches) ==
    /\ s >= F32One - notches * Tenth - Tenth \div 2
    /\ s <= F32One + notches * Tenth + Tenth \div 2

InitUniverse ==
    /\ \E height \in 1..UniDim, width \in 1..UniDim :
          universe = new(height, width)
    /\ start = universe
    /\ gen = 0
    /\ calls = <<>>
    /\ InitLocals

Call(next) ==
    /\ universe' = next
    /\ UNCHANGED <<locals, start, gen, calls>>

CallTick == Call(tick(universe))
CallReset == Call(reset(universe))
CallKill == \E x \in ClickPixels, y \in ClickPixels : Call(kill(universe, x, y))
CallRevive == \E x \in ClickPixels, y \in ClickPixels : Call(revive(universe, x, y))
CallShift ==
    \E x \in {-1, 0, 1}, y \in {-1, 0, 1} :
        /\ Abs(universe.x_offset + x) + Abs(universe.y_offset + y) <= MaxPan
        /\ Call(shift(universe, x, y))
CallIncrementScale ==
    \E increment \in {Tenth, -Tenth} :
        /\ InScaleRange(F32Add(universe.scale, increment), MaxNotch)
        /\ Call(increment_scale(universe, increment))
CallToggleState == Call(toggle_state(universe))
CallPause == Call(pause(universe))
CallRun == Call(run(universe))

NextUniverse ==
    \/ CallTick
    \/ CallReset
    \/ CallKill
    \/ CallRevive
    \/ CallShift
    \/ CallIncrementScale
    \/ CallToggleState
    \/ CallPause
    \/ CallRun

SpecUniverse == InitUniverse /\ [][NextUniverse]_vars

(***************************************************************************)
(* C5: after any sequence of tick, reset, kill, revive, shift,             *)
(* increment_scale, toggle_state, pause and run the cell sequence has      *)
(* width * height elements and width and height are those of creation.     *)
(***************************************************************************)
C5_LengthAndDimensions ==
    /\ Len(universe.cells) = universe.width * universe.height
    /\ DOMAIN universe.cells = 1..(universe.width * universe.height)
    /\ universe.width = start.width
    /\ universe.height = start.height

\* a 1x2 grid that was painted, run, panned and zoomed
C5_Witness ==
    /\ universe.height = 1 /\ universe.width = 2
    /\ universe.cells = <<Dead, Alive>>
    /\ universe.running
    /\ universe.x_offset # 0
    /\ universe.scale # F32One

(***************************************************************************)
(* SpecPaint: one call of kill or revive, at a pixel inside or outside the *)
(* grid, on a universe that was painted, panned and zoomed; `calls`        *)
(* records the call and `start` is the universe it was made on.            *)
(***************************************************************************)
InitPaint ==
    /\ \E height \in 1..UniDim, width \in 1..UniDim :
          \E c \in [1..(width * height) -> Cell], r \in BOOLEAN,
             pan \in {0, MaxPan},
             s \in {F32One, F32Add(F32One, Tenth), F32Add(F32One, -Tenth)} :
              universe = [new(height, width) EXCEPT
                              !.cells = c, !.running = r,
                              !.x_offset = pan, !.y_offset = -pan, !.scale = s]
    /\ start = universe
    /\ gen = 0
    /\ calls = <<>>
    /\ InitLocals

PaintCall(name, x, y, next) ==
    /\ calls = <<>>
    /\ universe' = next
    /\ calls' = <<[name |-> name, x |-> x, y |-> y]>>
    /\ UNCHANGED <<locals, start, gen>>

PaintKill ==
    \E x \in ClickPixels, y \in ClickPixels :
        PaintCall("kill", x, y, kill(universe, x, y))
PaintRevive ==
    \E x \in ClickPixels, y \in ClickPixels :
        PaintCall("revive", x, y, revive(universe, x, y))

NextPaint == PaintKill \/ PaintRevive

SpecPaint == InitPaint /\ [][NextPaint]_vars

(***************************************************************************)
(* C12: a call of kill or revive at a pixel that get_by_coordinates        *)
(* resolves stores Dead or Alive in the cell of that index, which is an    *)
(* index of the cell sequence, and leaves every other cell as it was; at a *)
(* pixel that does not resolve it leaves the universe as it was.  Neither  *)
(* changes running, the offsets, the scale or the dimensions.              *)
(***************************************************************************)
\* v is u with at most the cell under (x, y) changed, to c
OneCellSet(u, v, x, y, c) ==
    LET index == get_by_coordinates(u, x, y)
    IN  /\ v.running = u.running
        /\ v.x_offset = u.x_offset /\ v.y_offset = u.y_offset
        /\ v.scale = u.scale
        /\ v.width = u.width /\ v.height = u.height
        /\ v.leg_size = u.leg_size /\ v.spacing = u.spacing
        /\ DOMAIN v.cells = DOMAIN u.cells
        /\ IF index = None
           THEN v = u
           ELSE /\ index + 1 \in DOMAIN u.cells
                /\ v.cells[index + 1] = c
                /\ \A i \in DOMAIN u.cells : i # index + 1 => v.cells[i] = u.cells[i]

C12_AtMostOneCell ==
    calls # <<>> =>
        LET call == calls[1]
        IN  OneCellSet(start, universe, call.x, call.y,
                       IF call.name = "kill" THEN Dead ELSE Alive)

\* kill at a pixel of the last cell of a panned, running 2x2 grid of Alive cells
C12_Witness ==
    /\ calls = <<[name |-> "kill", x |-> 13, y |-> 13]>>
    /\ start.height = 2 /\ start.width = 2
    /\ start.running /\ start.x_offset # 0 /\ start.y_offset # 0
    /\ start.cells = <<Alive, Alive, Alive, Alive>>
    /\ get_by_coordinates(start, 13, 13) = 3
    /\ universe.cells = <<Alive, Alive, Alive, Dead>>

(***************************************************************************)
(* SpecReset: reset called on a universe that was painted, panned and      *)
(* zoomed, running or paused, then calls of tick until a revive (a click   *)
(* on the diagonal).                                                       *)
(* `start` is the universe reset was called on, `gen` counts the calls of  *)
(* tick after it.                                                          *)
(***************************************************************************)
ResetCall ==
    /\ calls = <<>>
    /\ universe' = reset(universe)
    /\ calls' = <<[name |-> "reset"]>>
    /\ UNCHANGED <<locals, start, gen>>

ResetGeneration ==
    /\ Len(calls) = 1
    /\ gen < MaxGen
    /\ universe' = tick(universe)
    /\ gen' = gen + 1
    /\ UNCHANGED <<locals, start, calls>>

ResetRevive ==
    /\ Len(calls) = 1
    /\ \E x \in ClickPixels :
          /\ universe' = revive(universe, x, x)
          /\ calls' = Append(calls, [name |-> "revive", x |-> x, y |-> x])
    /\ UNCHANGED <<locals, start, gen>>

NextReset == ResetCall \/ ResetGeneration \/ ResetRevive

SpecReset == InitPaint /\ [][NextReset]_vars

(***************************************************************************)
(* C13: reset leaves width * height Dead cells and keeps width, height,    *)
(* the offsets, the scale and running, so a running grid keeps running;    *)
(* the grid then is all Dead after every number of calls of tick, until a  *)
(* revive.                                                                 *)
(***************************************************************************)
C13_ResetKeepsView ==
    calls # <<>> =>
        /\ universe.width = start.width /\ universe.height = start.height
        /\ universe.x_offset = start.x_offset /\ universe.y_offset = start.y_offset
        /\ universe.scale = start.scale
        /\ universe.running = start.running
        /\ Len(calls) = 1 =>
              /\ Len(universe.cells) = start.width * start.height
              /\ AllCells(universe, Dead)

\* a running, panned 2x2 grid with Alive cells, reset and then run for
\* MaxGen generations
C13_Witness ==
    /\ calls = <<[name |-> "reset"]>>
    /\ gen = MaxGen
    /\ start.running /\ start.x_offset # 0 /\ start.scale # F32One
    /\ start.cells = <<Alive, Alive, Dead, Alive>>
    /\ universe.running
    /\ universe.cells = <<Dead, Dead, Dead, Dead>>

(***************************************************************************)
(* SpecFlag: toggle_state, pause and run called on a universe that was     *)
(* painted, panned and zoomed; `calls` records the methods called on       *)
(* `start`.                                                                *)
(***************************************************************************)
InitFlag ==
    /\ \E height \in 1..UniDim, width \in 1..UniDim :
          \E c \in [1..(width * height) -> Cell], r \in BOOLEAN,
             x \in -MaxPan..MaxPan, y \in -MaxPan..MaxPan,
             s \in {F32One, F32Add(F32One, Tenth), F32Add(F32One, -Tenth)} :
              universe = [new(height, width) EXCEPT
                              !.cells = c, !.running = r,
                              !.x_offset = x, !.y_offset = y, !.scale = s]
    /\ start = universe
    /\ gen = 0
    /\ calls = <<>>
    /\ InitLocals

FlagCall(name, next) ==
    /\ Len(calls) < MaxCalls
    /\ universe' = next
    /\ calls' = Append(calls, name)
    /\ UNCHANGED <<locals, start, gen>>

FlagToggleState == FlagCall("toggle_state", toggle_state(universe))
FlagPause == FlagCall("pause", pause(universe))
FlagRun == FlagCall("run", run(universe))

NextFlag == FlagToggleState \/ FlagPause \/ FlagRun

SpecFlag == InitFlag /\ [][NextFlag]_vars

(***************************************************************************)
(* C9: toggle_state called twice returns running to its original value;    *)
(* toggle_state, pause and run change only running: toggle_state flips it, *)
(* pause clears it, run sets it, and cells, offsets, scale and dimensions  *)
(* stay as they were.                                                      *)
(***************************************************************************)
C9_FlagOnly ==
    /\ [universe EXCEPT !.running = start.running] = start
    /\ calls = <<"toggle_state">> => universe.running = ~start.running
    /\ calls = <<"toggle_state", "toggle_state">> => universe.running = start.running
    /\ (calls # <<>> /\ calls[Len(calls)] = "pause") => ~universe.running
    /\ (calls # <<>> /\ calls[Len(calls)] = "run") => universe.running

\* toggle_state called twice on a running, painted, panned and zoomed grid
C9_Witness ==
    /\ calls = <<"toggle_state", "toggle_state">>
    /\ start.running /\ universe.running
    /\ \E i \in 1..Len(universe.cells) : universe.cells[i] = Alive
    /\ universe.x_offset # 0
    /\ universe.scale # F32One

(***************************************************************************)
(* SpecView: the view of a new universe under panning (shift) and zooming  *)
(* (increment_scale by the 0.1 and -0.1 of the mouse wheel).               *)
(***************************************************************************)
ViewIncrementScale ==
    \E increment \in {Tenth, -Tenth} :
        /\ F32Add(universe.scale, increment) >= F32One - ViewDown * Tenth - Tenth \div 2
        /\ F32Add(universe.scale, increment) <= F32One + ViewUp * Tenth + Tenth \div 2
        /\ Call(increment_scale(universe, increment))

\* a grid with fewer rows than columns
InitView ==
    /\ universe = new(UniDim, UniDim + 1)
    /\ start = universe
    /\ gen = 0
    /\ calls = <<>>
    /\ InitLocals

NextView == CallShift \/ ViewIncrementScale

SpecView == InitView /\ [][NextView]_vars

\* the pixels of a line across the grid, from 2 before it to 2 after it
PixelsX(u) == (u.x_offset - 2)..(u.x_offset + u.width * Abs(CellSize(u)) + 2)
PixelsY(u) == (u.y_offset - 2)..(u.y_offset + u.height * Abs(CellSize(u)) + 2)

\* on such a line: the first and the last pixel of every cell's square and of
\* every drawn rectangle, the first pixel of every spacing band, and the
\* pixels next to the grid on either side
Probes(offset, cells, size, leg) ==
    { offset - 1, offset + cells * size }
        \cup { offset + i * size + d :
                 i \in 0..(cells - 1), d \in {0, leg - 1, leg, size - 1} }
ProbesX(u) ==
    Probes(u.x_offset, u.width, Abs(CellSize(u)), F32MulFloorAsU32(u.leg_size, u.scale))
ProbesY(u) ==
    Probes(u.y_offset, u.height, Abs(CellSize(u)), F32MulFloorAsU32(u.leg_size, u.scale))

\* every pixel of every probed row and of every probed column
Pixels(u) == (PixelsX(u) \X ProbesY(u)) \cup (ProbesX(u) \X PixelsY(u))

InRect(x, y, rx, ry, w, h) == rx <= x /\ x < rx + w /\ ry <= y /\ y < ry + h

(***************************************************************************)
(* C10 as claimed: at every positive scale, a pixel that                   *)
(* get_by_coordinates maps to a cell lies in the rectangle render draws    *)
(* for that cell.                                                          *)
(***************************************************************************)
C10_PixelInDrawnRect ==
    LET u     == universe
        frame == render(u)
    IN  u.scale > 0 =>
          \A p \in Pixels(u) :
              LET x     == p[1]
                  y     == p[2]
                  index == get_by_coordinates(u, x, y)
              IN  index # None =>
                    LET r == frame[index + 1]
                    IN  InRect(x, y, r.x, r.y, r.w, r.h)

(***************************************************************************)
(* C10 as amended: at every scale at which the cell pixel size is at least *)
(* 1, a pixel that get_by_coordinates maps to a cell lies in the square    *)
(* whose top-left corner is the one render computes for that cell and      *)
(* whose side is the cell pixel size; it lies in the drawn rectangle       *)
(* exactly when it is not in the spacing band right of or below it.        *)
(***************************************************************************)
C10_PixelInCellSlot ==
    LET u     == universe
        frame == render(u)
        size  == CellSize(u)
    IN  size >= 1 =>
          \A p \in Pixels(u) :
              LET x     == p[1]
                  y     == p[2]
                  index == get_by_coordinates(u, x, y)
              IN  index # None =>
                    LET r == frame[index + 1]
                    IN  /\ InRect(x, y, r.x, r.y, size, size)
                        /\ InRect(x, y, r.x, r.y, r.w, r.h)
                             <=> /\ (x - u.x_offset) % size < r.w
                                 /\ (y - u.y_offset) % size < r.h

\* a panned, zoomed grid on which a pixel of the spacing band of the last
\* cell maps to that cell
C10_Witness ==
    LET u    == universe
        last == u.width * u.height - 1
        r    == render(u)[last + 1]
    IN  /\ u.x_offset # 0 /\ u.scale > F32One
        /\ CellSize(u) >= 1
        /\ \E p \in Pixels(u) :
              /\ get_by_coordinates(u, p[1], p[2]) = last
              /\ ~InRect(p[1], p[2], r.x, r.y, r.w, r.h)

(***************************************************************************)
(* C18: whatever wheel events were handled, scale is positive and the cell *)
(* pixel size is at least 1.                                               *)
(***************************************************************************)
C18_ScalePositive ==
    /\ universe.scale > 0
    /\ CellSize(universe) >= 1

(***************************************************************************)
(* C11: at every offset and scale reached by panning and wheel events, the *)
(* pixel with x = x_offset - 1 maps to none for every y, and kill and      *)
(* revive at that pixel leave the universe as it was.                      *)
(***************************************************************************)
C11_LeftOfGridIsNone ==
    LET u == universe
        x == u.x_offset - 1
    IN  \A y \in PixelsY(u) :
            /\ get_by_coordinates(u, x, y) = None
            /\ kill(u, x, y) = u
            /\ revive(u, x, y) = u

(***************************************************************************)
(* C20: at every offset and every scale the wheel reaches, zero and        *)
(* negative cell pixel sizes included, an index that get_by_coordinates    *)
(* returns is below width * height, so it is an index of the cell          *)
(* sequence, and it is row * width + col for the row < height and the      *)
(* col < width that the floored quotients give.                            *)
(***************************************************************************)
\* the probes of a line and their mirror images about the offset, where the
\* cells lie when the cell pixel size is negative
BothSides(offset, probes) == probes \cup { 2 * offset - p : p \in probes }

\* q is the floor of d / size; a size of 0 gives NaN, which `as u32` makes 0
IsFloorOf(q, d, size) ==
    IF size > 0 THEN q * size <= d /\ d < (q + 1) * size
    ELSE IF size < 0 THEN q * size >= d /\ d > (q + 1) * size
    ELSE q = 0

C20_IndexInRange ==
    LET u    == universe
        size == CellSize(u)
    IN  \A x \in BothSides(u.x_offset, ProbesX(u)),
           y \in BothSides(u.y_offset, ProbesY(u)) :
            LET index == get_by_coordinates(u, x, y)
            IN  index # None =>
                  /\ index >= 0
                  /\ index < u.width * u.height
                  /\ index + 1 \in DOMAIN u.cells
                  /\ \E row \in Rows(u), col \in Cols(u) :
                        /\ index = row * u.width + col
                        /\ IsFloorOf(row, y - u.y_offset, size)
                        /\ IsFloorOf(col, x - u.x_offset, size)

\* a panned grid at a negative scale on which a pixel left of and above the
\* offsets maps to the last cell
C20_Witness ==
    LET u == universe
    IN  /\ u.scale < 0 /\ CellSize(u) < -1
        /\ u.x_offset # 0
        /\ \E x \in BothSides(u.x_offset, ProbesX(u)),
              y \in BothSides(u.y_offset, ProbesY(u)) :
                /\ x < u.x_offset /\ y < u.y_offset
                /\ get_by_coordinates(u, x, y) = u.width * u.height - 1

(***************************************************************************)
(* Engine::run, the interaction loop.  The arms of `match event`, one      *)
(* operator each: what the arm does to the universe, to the locals of the  *)
(* loop and to the position in the loop.                                   *)
(***************************************************************************)
TickMs == 100
RenderMs == 8

Keycodes == {"Space", "Right", "Escape", "R", "Other"}
MouseButtons == {"Left", "Right", "Middle", "X1"}
\* where the mouse is when an event reports it: a pixel of cell (1,0) and one
\* of cell (0,1) of the grid as created
MousePoints == { <<0, 13>>, <<13, 0>> }
WheelSteps == {1, -1, 2}

Min(a, b) == IF a < b THEN a ELSE b

\* Event::Quit with a plain `break`, which ends the for loop only
QuitEndsPoll ==
    /\ pc' = "tick"
    /\ UNCHANGED <<universe, mouse_mode, previous_mouse_pos>>

\* Event::Quit {..} => break 'running
Quit ==
    /\ pc' = "done"
    /\ UNCHANGED <<universe, mouse_mode, previous_mouse_pos>>

\* the Right arm without its call of run
KeyRightNoRun(u) == pause(tick(u))

\* Some(Keycode::Right) => { run(); tick(); pause(); }
KeyRight(u) == pause(tick(run(u)))

\* Event::KeyDown {keycode, ..}
KeyDown(keycode) ==
    /\ universe' =
          CASE keycode = "Space" -> toggle_state(universe)
            [] keycode = "Right" -> KeyRight(universe)
            [] keycode = "R"     -> reset(universe)
            [] OTHER             -> universe
    /\ pc' = IF keycode = "Escape" THEN "done" ELSE pc
    /\ UNCHANGED <<mouse_mode, previous_mouse_pos>>

\* Event::MouseButtonDown {mouse_btn, x, y, ..}
MouseButtonDown(mouse_btn, x, y) ==
    /\ mouse_setting' = IF mouse_btn = "Left" THEN TRUE ELSE mouse_setting
    /\ mouse_clearing' = IF mouse_btn = "Right" THEN TRUE ELSE mouse_clearing
    /\ mouse_dragging' = IF mouse_btn = "Middle" THEN TRUE ELSE mouse_dragging
    /\ universe' =
          CASE mouse_btn = "Left"  -> revive(universe, x, y)
            [] mouse_btn = "Right" -> kill(universe, x, y)
            [] OTHER               -> universe
    /\ previous_mouse_pos_x' = x
    /\ previous_mouse_pos_y' = y
    /\ UNCHANGED pc

\* Event::MouseButtonUp {mouse_btn, ..}
MouseButtonUp(mouse_btn) ==
    /\ mouse_setting' = IF mouse_btn = "Left" THEN FALSE ELSE mouse_setting
    /\ mouse_clearing' = IF mouse_btn = "Right" THEN FALSE ELSE mouse_clearing
    /\ mouse_dragging' = IF mouse_btn = "Middle" THEN FALSE ELSE mouse_dragging
    /\ UNCHANGED <<universe, previous_mouse_pos, pc>>

\* Event::MouseWheel {y, ..}
MouseWheel(y) ==
    /\ universe' =
          CASE y = 1  -> increment_scale(universe, Tenth)
            [] y = -1 -> increment_scale(universe, -Tenth)
            [] OTHER  -> universe
    /\ UNCHANGED <<mouse_mode, previous_mouse_pos, pc>>

\* the MouseMotion arm if dragging did not store the position it shifted to
MouseMotionKeepsPrevious(x, y) ==
    LET x_dif == x - previous_mouse_pos_x
        y_dif == y - previous_mouse_pos_y
    IN  /\ universe' =
              IF mouse_dragging THEN shift(universe, x_dif, y_dif)
              ELSE IF mouse_setting THEN revive(universe, x, y)
              ELSE IF mouse_clearing THEN kill(universe, x, y)
              ELSE universe
        /\ UNCHANGED <<previous_mouse_pos, mouse_mode, pc>>

\* the MouseMotion arm with the dragging branch only
MouseMotionDragsOnly(x, y) ==
    LET x_dif == x - previous_mouse_pos_x
        y_dif == y - previous_mouse_pos_y
    IN  /\ IF mouse_dragging
           THEN /\ universe' = shift(universe, x_dif, y_dif)
                /\ previous_mouse_pos_x' = x
                /\ previous_mouse_pos_y' = y
           ELSE UNCHANGED <<universe, previous_mouse_pos>>
        /\ UNCHANGED <<mouse_mode, pc>>

\* Event::MouseMotion {x, y, ..}
MouseMotion(x, y) ==
    LET x_dif == x - previous_mouse_pos_x
        y_dif == y - previous_mouse_pos_y
    IN  /\ IF mouse_dragging
           THEN /\ universe' = shift(universe, x_dif, y_dif)
                /\ previous_mouse_pos_x' = x
                /\ previous_mouse_pos_y' = y
           ELSE /\ universe' =
                      IF mouse_setting THEN revive(universe, x, y)
                      ELSE IF mouse_clearing THEN kill(universe, x, y)
                      ELSE universe
                /\ UNCHANGED previous_mouse_pos
        /\ UNCHANGED <<mouse_mode, pc>>

\* the views the model follows the loop through
InLoopBounds(u) ==
    /\ InScaleRange(u.scale, MaxNotch)
    /\ Abs(u.x_offset) <= LoopPan
    /\ Abs(u.y_offset) <= LoopPan

(***************************************************************************)
(* Spec: the loop under every event and the clock.  One step handles one   *)
(* polled event, ends the poll, makes the tick check, makes the render     *)
(* check, goes back to the top of the loop, or lets the clock advance.     *)
(***************************************************************************)
Init ==
    /\ universe = new(LoopDim, LoopDim)
    /\ start = universe
    /\ gen = 0
    /\ calls = <<>>
    /\ InitLocals

\* the body of `for event in self.event_pump.poll_iter()` for one event
Event(arm) ==
    /\ pc = "events"
    /\ arm
    /\ InLoopBounds(universe')
    /\ UNCHANGED <<clocks, ticked, rendered, press, start, gen, calls>>

EventQuit == Event(Quit)
EventKeyDown == \E keycode \in Keycodes : Event(KeyDown(keycode))
EventMouseButtonDown ==
    \E mouse_btn \in MouseButtons, p \in MousePoints :
        Event(MouseButtonDown(mouse_btn, p[1], p[2]))
EventMouseButtonUp == \E mouse_btn \in MouseButtons : Event(MouseButtonUp(mouse_btn))
EventMouseWheel == \E y \in WheelSteps : Event(MouseWheel(y))
EventMouseMotion == \E p \in MousePoints : Event(MouseMotion(p[1], p[2]))

\* poll_iter has no event left: the for loop ends
PollEnd ==
    /\ pc = "events"
    /\ pc' = "tick"
    /\ UNCHANGED <<universe, mouse_mode, previous_mouse_pos, clocks,
                   ticked, rendered, press, start, gen, calls>>

\* the tick check if it did not store a new Instant in tick_timer
TickCheckKeepsTimer ==
    /\ pc = "tick"
    /\ IF tick_timer >= TickMs
       THEN /\ universe' = tick(universe)
            /\ since_tick' = 0
            /\ ticked' = TRUE
            /\ UNCHANGED tick_timer
       ELSE /\ ticked' = FALSE
            /\ UNCHANGED <<universe, tick_timer, since_tick>>
    /\ pc' = "render"
    /\ UNCHANGED <<mouse_mode, previous_mouse_pos, render_timer,
                   rendered, press, start, gen, calls>>

\* if tick_timer.elapsed().as_millis() >= 100 { tick(); tick_timer = now }
TickCheck ==
    /\ pc = "tick"
    /\ IF tick_timer >= TickMs
       THEN /\ universe' = tick(universe)
            /\ tick_timer' = 0
            /\ since_tick' = 0
            /\ ticked' = TRUE
       ELSE /\ ticked' = FALSE
            /\ UNCHANGED <<universe, tick_timer, since_tick>>
    /\ pc' = "render"
    /\ UNCHANGED <<mouse_mode, previous_mouse_pos, render_timer,
                   rendered, press, start, gen, calls>>

\* if render_timer.elapsed().as_millis() >= 8 { render; present; render_timer = now }
RenderCheck ==
    /\ pc = "render"
    /\ IF render_timer >= RenderMs
       THEN /\ rendered' = TRUE
            /\ render_timer' = 0
       ELSE /\ rendered' = FALSE
            /\ UNCHANGED render_timer
    /\ pc' = "top"
    /\ UNCHANGED <<universe, mouse_mode, previous_mouse_pos, tick_timer,
                   since_tick, ticked, press, start, gen, calls>>

\* 'running: loop { set_draw_color; clear; for event in ... : the next iteration
\* starts, with nothing ticked or rendered in it yet
LoopTop ==
    /\ pc = "top"
    /\ pc' = "events"
    /\ ticked' = FALSE
    /\ rendered' = FALSE
    /\ UNCHANGED <<universe, mouse_mode, previous_mouse_pos, clocks,
                   press, start, gen, calls>>

\* the monotonic clock advances while the loop runs
Elapse ==
    /\ pc # "done"
    /\ tick_timer' = Min(tick_timer + Delay, TickMs)
    /\ render_timer' = Min(render_timer + Delay, RenderMs)
    /\ since_tick' = Min(since_tick + Delay, TickMs)
    /\ UNCHANGED <<universe, mouse_mode, previous_mouse_pos, pc,
                   ticked, rendered, press, start, gen, calls>>

Next ==
    \/ EventQuit
    \/ EventKeyDown
    \/ EventMouseButtonDown
    \/ EventMouseButtonUp
    \/ EventMouseWheel
    \/ EventMouseMotion
    \/ PollEnd
    \/ TickCheck
    \/ RenderCheck
    \/ LoopTop
    \/ Elapse

Spec == Init /\ [][Next]_vars

(***************************************************************************)
(* C2: a call of tick while running is false changes no cell, whatever the *)
(* cells are; in the loop, no tick check changes a paused grid, however    *)
(* many of them call tick.                                                 *)
(***************************************************************************)
C2_PausedTickKeepsCells ==
    [][ (pc = "tick" /\ ~universe.running) => universe'.cells = universe.cells ]_vars

\* a paused grid with an Alive cell right after a tick check that called tick
C2_Witness ==
    /\ pc = "render"
    /\ ticked
    /\ ~universe.running
    /\ \E i \in 1..Len(universe.cells) : universe.cells[i] = Alive

(***************************************************************************)
(* The loop observed event by event: `calls` holds the event handled last  *)
(* and `start` the universe it was handled on.                             *)
(***************************************************************************)
Seen(event, arm) ==
    /\ pc = "events"
    /\ arm
    /\ InLoopBounds(universe')
    /\ start' = universe
    /\ calls' = <<event>>
    /\ UNCHANGED <<clocks, ticked, rendered, gen>>

SeenKeyDown ==
    /\ \E keycode \in Keycodes :
          Seen([type |-> "KeyDown", keycode |-> keycode], KeyDown(keycode))
    /\ UNCHANGED press

(***************************************************************************)
(* SpecKeys: key events on a grid of 4..MaxPatDim rows and columns on      *)
(* which a block or a blinker was painted, running or paused.              *)
(***************************************************************************)
InitKeys ==
    /\ \E height \in 4..MaxPatDim, width \in 4..MaxPatDim :
          \E alive \in Patterns(height, width), r \in BOOLEAN :
              universe = [new(height, width) EXCEPT
                              !.cells = Placed(height, width, alive),
                              !.running = r]
    /\ start = universe
    /\ gen = 0
    /\ calls = <<>>
    /\ InitLocals

NextKeys == SeenKeyDown

SpecKeys == InitKeys /\ [][NextKeys]_vars

\* the last event handled was a KeyDown with this keycode
LastKey(keycode) == calls = <<[type |-> "KeyDown", keycode |-> keycode]>>

(***************************************************************************)
(* C14: after a Right-arrow key event the cells are the B3/S23 successor   *)
(* of the cells before it, whether the grid was running or paused, and     *)
(* running is false.                                                       *)
(***************************************************************************)
C14_RightArrowSteps ==
    LastKey("Right") =>
        /\ ~universe.running
        /\ Len(universe.cells) = Len(start.cells)
        /\ \A row \in Rows(start) : \A col \in Cols(start) :
              CellOf(universe, row, col)
                = RuleOfClaim(CellOf(start, row, col), WrappedCount(start, row, col))

\* a paused horizontal blinker across the right edge, stepped to a vertical one
C14_Witness ==
    /\ LastKey("Right")
    /\ ~start.running
    /\ start.cells = Placed(start.height, start.width,
                            HorizontalBlinker(start.height, start.width,
                                              1, start.width - 1))
    /\ universe.cells = Placed(start.height, start.width,
                               VerticalBlinker(start.height, start.width, 0, 0))
    /\ ~universe.running

(***************************************************************************)
(* SpecMouse: the loop under mouse button and mouse motion events, in      *)
(* every order.                                                            *)
(***************************************************************************)
SeenMouseButtonDown ==
    \E mouse_btn \in MouseButtons, p \in MousePoints :
        /\ Seen([type |-> "MouseButtonDown", mouse_btn |-> mouse_btn,
                 x |-> p[1], y |-> p[2]],
                MouseButtonDown(mouse_btn, p[1], p[2]))
        /\ press' = [x |-> p[1], y |-> p[2],
                     x_offset |-> universe.x_offset,
                     y_offset |-> universe.y_offset,
                     middle_x_offset |-> IF mouse_btn = "Middle" THEN universe.x_offset
                                         ELSE press.middle_x_offset,
                     middle_y_offset |-> IF mouse_btn = "Middle" THEN universe.y_offset
                                         ELSE press.middle_y_offset]

SeenMouseButtonUp ==
    /\ \E mouse_btn \in MouseButtons :
          Seen([type |-> "MouseButtonUp", mouse_btn |-> mouse_btn],
               MouseButtonUp(mouse_btn))
    /\ UNCHANGED press

SeenMouseMotion ==
    /\ \E p \in MousePoints :
          Seen([type |-> "MouseMotion", x |-> p[1], y |-> p[2]],
               MouseMotion(p[1], p[2]))
    /\ UNCHANGED press

NextMouse == SeenMouseButtonDown \/ SeenMouseButtonUp \/ SeenMouseMotion

SpecMouse == Init /\ [][NextMouse]_vars

\* the last event handled was a MouseMotion
LastMotion == calls # <<>> /\ calls[1].type = "MouseMotion"

(***************************************************************************)
(* C15 as claimed: whenever the left button is down, a mouse motion        *)
(* revives the cell under the cursor and does nothing else, and whenever   *)
(* the right button is down, a mouse motion kills it, whatever other       *)
(* buttons are down.                                                       *)
(***************************************************************************)
C15_EveryMotionPaints ==
    LastMotion =>
        /\ mouse_setting
              => OneCellSet(start, universe, calls[1].x, calls[1].y, Alive)
        /\ mouse_clearing
              => OneCellSet(start, universe, calls[1].x, calls[1].y, Dead)

(***************************************************************************)
(* C15 as amended: a mouse motion revives the cell under the cursor when   *)
(* the left button is down and the middle one is not; it kills it when the *)
(* right button is down and neither the middle nor the left one is; with   *)
(* the middle button down it changes no cell; with no button down it       *)
(* changes nothing.                                                        *)
(***************************************************************************)
C15_MotionPaintsByPriority ==
    LastMotion =>
        /\ (mouse_setting /\ ~mouse_dragging)
              => OneCellSet(start, universe, calls[1].x, calls[1].y, Alive)
        /\ (mouse_clearing /\ ~mouse_setting /\ ~mouse_dragging)
              => OneCellSet(start, universe, calls[1].x, calls[1].y, Dead)
        /\ mouse_dragging => universe.cells = start.cells
        /\ (~mouse_dragging /\ ~mouse_setting /\ ~mouse_clearing)
              => universe = start

\* on a grid that was panned, with the left and the right button down and the
\* middle one released, a motion to a Dead cell has revived it
C15_Witness ==
    /\ LastMotion
    /\ mouse_setting /\ mouse_clearing /\ ~mouse_dragging
    /\ universe.x_offset # 0
    /\ LET index == get_by_coordinates(start, calls[1].x, calls[1].y)
       IN  /\ index # None
           /\ start.cells[index + 1] = Dead
           /\ universe.cells[index + 1] = Alive

(***************************************************************************)
(* C19 as claimed: after a mouse motion with the middle button down, the   *)
(* change of the offsets since the middle button went down is the cursor   *)
(* position minus the position of the last button-down event of any        *)
(* button; a motion with the middle button up leaves the offsets alone.    *)
(***************************************************************************)
C19_PanSinceMiddlePress ==
    LastMotion =>
        IF mouse_dragging
        THEN /\ universe.x_offset - press.middle_x_offset = calls[1].x - press.x
             /\ universe.y_offset - press.middle_y_offset = calls[1].y - press.y
        ELSE /\ universe.x_offset = start.x_offset
             /\ universe.y_offset = start.y_offset

(***************************************************************************)
(* C19 as amended: after a mouse motion with the middle button down, the   *)
(* change of the offsets since the last button-down event of any button is *)
(* the cursor position minus the position of that event, and the motion    *)
(* itself shifted by the cursor position minus the position recorded       *)
(* before it; a motion with the middle button up leaves the offsets alone. *)
(***************************************************************************)
C19_PanSinceLastPress ==
    LastMotion =>
        IF mouse_dragging
        THEN /\ universe.x_offset - press.x_offset = calls[1].x - press.x
             /\ universe.y_offset - press.y_offset = calls[1].y - press.y
             /\ previous_mouse_pos_x = calls[1].x
             /\ previous_mouse_pos_y = calls[1].y
        ELSE /\ universe.x_offset = start.x_offset
             /\ universe.y_offset = start.y_offset

\* the middle button went down, a motion panned, the left button went down
\* elsewhere and a second motion panned back
C19_Witness ==
    /\ LastMotion
    /\ mouse_dragging /\ mouse_setting
    /\ press.x_offset # press.middle_x_offset
    /\ universe.x_offset # press.x_offset
    /\ universe.x_offset # start.x_offset

(***************************************************************************)
(* C16: the loop ends when and only when a Quit event or an Escape         *)
(* key-down event is handled: the step that ends it is the handling of     *)
(* one of the two in the for loop over the polled events and changes       *)
(* nothing else, each of the two ends it, and once it has ended no event   *)
(* is handled, nothing is ticked or rendered and nothing changes.          *)
(***************************************************************************)
C16_EndsOnQuitOnly ==
    [][ /\ pc # "done"
        /\ pc' = "done" =>
              /\ pc = "events"
              /\ Quit \/ KeyDown("Escape")
              /\ UNCHANGED <<universe, mouse_mode, previous_mouse_pos,
                             clocks, ticked, rendered>>
        /\ (pc = "events" /\ (Quit \/ KeyDown("Escape"))) => pc' = "done" ]_vars

\* the loop ended on a running, painted grid while a tick and a render were due
C16_Witness ==
    /\ pc = "done"
    /\ tick_timer >= TickMs /\ render_timer >= RenderMs
    /\ ~ticked /\ ~rendered
    /\ universe.running
    /\ mouse_setting
    /\ \E i \in 1..Len(universe.cells) : universe.cells[i] = Alive

(***************************************************************************)
(* C17: the tick check of an iteration calls tick exactly when at least    *)
(* TickMs ms have passed since the tick clock was reset, so at least       *)
(* TickMs ms after the previous call made by a tick check, and it resets   *)
(* the clock; the render check renders exactly when at least RenderMs ms   *)
(* have passed since the last render, whether or not the iteration ticked  *)
(* and whether or not the grid is running.                                 *)
(***************************************************************************)
C17_Cadence ==
    [][ /\ (pc = "tick" /\ pc' = "render") =>
              /\ ticked' <=> tick_timer >= TickMs
              /\ ticked' => /\ since_tick >= TickMs
                            /\ universe' = tick(universe)
                            /\ tick_timer' = 0
              /\ ~ticked' => /\ universe' = universe
                             /\ tick_timer' = tick_timer
        /\ (pc = "render" /\ pc' = "top") =>
              /\ rendered' <=> render_timer >= RenderMs
              /\ rendered' => render_timer' = 0
              /\ ~rendered' => render_timer' = render_timer
              /\ universe' = universe ]_vars

\* the end of an iteration that ticked a running grid and did not render
C17_Witness ==
    /\ pc = "top"
    /\ ticked /\ ~rendered
    /\ universe.running
    /\ since_tick = 0
    /\ render_timer < RenderMs

====
